---- MODULE Spec2Model ----
(***************************************************************************)
(* Claim adjudication pipeline of the content-creator insurance backend:   *)
(* the Claim model methods (Models/Claim.js) and the request handlers that *)
(* drive them (ClaimsController.js, AdminClaimsController.js,              *)
(* AdminContentController.js).                                             *)
(*                                                                         *)
(* Numbers.  Money is in whole KSh; the revenue histories used here make   *)
(* every mean a whole number, so JavaScript's float division is exact.     *)
(* revenueDropPercent is a float in the code; it is kept here in           *)
(* hundredths of a percent, rounded down (Pct(70) is 70%), which preserves *)
(* every comparison the code makes with a whole percentage.                *)
(* A field the code leaves undefined / null is Undef.                      *)
(***************************************************************************)
EXTENDS Integers, Sequences, FiniteSets, TLC

\* ------------------------------------------------------------------ bounds
MaxClaims == 2
MaxRequests == 4
MaxBatch == 1

\* ------------------------------------------------------- program constants
DropThreshold == 70
MinLostDays == 3
StrikeLimit == 3
DefaultMonthlyCap == 65000
AutoApproveAbove == 75
ManualReviewFrom == 50
WindowDays == 30
PayoutDelayDays == 7
FraudRejectPenalty == 20
ReinstatePenalty == 10
ReinstateFloor == 50
SpikePenalty == 20
MassUploadPenalty == 15
CopyrightPenalty == 25
AppealRejectedPenalty == 10
NewChannelPenalty == 10
NameMismatchPenalty == 5
BaselineDays == 7
PostDays == 10

Undef == 0 - 1
Pct(p) == p * 100

Max2(a, b) == IF a >= b THEN a ELSE b
Min2(a, b) == IF a <= b THEN a ELSE b

\* ------------------------------------------------------------- enumerations
IncidentTypes == {"Full suspension", "Limited ads", "Video demonetization"}
AppealStatuses == {"Not started", "In progress", "Rejected"}
Covered == {"AD_SUITS", "POLICY_UPDATE", "TEMP_SUSPEND", "GLITCH"}
Statuses == {"Submitted", "Under Review", "AI Reviewed", "Manual Review",
             "Approved", "Rejected", "Paid", "Reinstated"}

Users == {1, 2}
Admin == "admin"
NoActor == "none"

\* --------------------------------------------------- revenue history inputs
\* Analytics documents (youtube.metrics) the claims core reads.  NoAnalytics
\* is "no Analytics document for the user".
NoAnalytics == [avgDailyRevenue90d |-> Undef, earningsHistory |-> << >>]

Day(d, a) == [date |-> d, amount |-> a]

\* Nothing for two days, one day of very high revenue, then nothing.  By
\* incident date: 3 has a zero baseline; 4 has the spike on the eve of the
\* incident and a loss above the monthly cap; 7 has no post-incident day.
Hist == [avgDailyRevenue90d |-> 0,
         earningsHistory |-> << Day(1, 0), Day(2, 0), Day(3, 150000),
                                Day(4, 0), Day(5, 0), Day(6, 0) >>]

IncidentDates == {3, 4, 7}
SubmittedTypes == {"Full suspension"}
SubmittedAppeals == {"Not started", "Rejected"}

\* Fraud-relevant facts of a user account (User.platformInfo, financialInfo).
Profile(m, n, x) == [massUpload |-> m, newChannel |-> n, nameMismatch |-> x]
\* User 1 is an established account, user 2 a new channel with a mass upload.
InitialProfile(u) == IF u = 1 THEN Profile(FALSE, FALSE, TRUE) ELSE Profile(TRUE, TRUE, TRUE)
\* insuranceStatus.fraudScore of the account.
InitialStanding(u) == IF u = 1 THEN 100 ELSE 40

\* ------------------------------------------------------------------- state
VARIABLES
  strictQuery,   \* mongoose strictQuery setting of the build
  analytics,     \* Analytics collection: user -> document
  premiums,      \* Premium collection: user -> monthlyCap of the user's policy
  users,         \* User collection: user -> profile, standing, claimHistory
  claims,        \* Claim collection: sequence of claim documents, id = index
  now,           \* clock, in days (a run takes place within one day)
  response,      \* response of the last request
  requests,      \* number of requests served
  account,       \* the billed user: financialInfo and insuranceStatus
  premiumDocs,   \* Premium collection: the billed user's documents, in insertion order
  billing,       \* outcome of the last premium request
  runs           \* submitClaim requests in flight: claim id -> next step

vars == << strictQuery, analytics, premiums, users, claims, now, response, requests,
           account, premiumDocs, billing, runs >>

\* -------------------------------------------------------------- sequences
RECURSIVE SumAmounts(_)
SumAmounts(s) == IF s = << >> THEN 0 ELSE Head(s).amount + SumAmounts(Tail(s))

\* Array.prototype.slice(-n)
LastN(s, n) == IF Len(s) <= n THEN s ELSE SubSeq(s, Len(s) - n + 1, Len(s))
\* Array.prototype.slice(0, n)
FirstN(s, n) == IF Len(s) <= n THEN s ELSE SubSeq(s, 1, n)

IsPrefix(s, t) == Len(s) <= Len(t) /\ SubSeq(t, 1, Len(s)) = s

HasStatus(cl, st) == \E i \in 1..Len(cl.history) : cl.history[i].status = st
CurrentStatus(cl) == cl.history[Len(cl.history)].status

\* ------------------------------------------------------ Claim model methods
\* new Claim({...}) with the schema defaults.
NewClaim(u, itype, idate, appeal) ==
  [userId |-> u, incidentType |-> itype, incidentDate |-> idate,
   appealStatus |-> appeal,
   revenueDropPercent |-> Undef, lostDays |-> 0, baselineDaily |-> Undef,
   verifiedEarningsLoss |-> Undef, coveredReason |-> "OTHER_NOT_COVERED",
   monetizationStatus |-> "NONE", strikes |-> 0, doubleDipCheck |-> FALSE,
   fraudScore |-> 0, aiIsValid |-> "null", confidenceScore |-> Undef,
   reasons |-> {},
   manualReview |-> [reviewerId |-> NoActor, isValid |-> "null"],
   payoutAmount |-> Undef, payoutDate |-> Undef, mPesaTransactionId |-> Undef,
   repayAmount |-> 0, reinstated |-> FALSE,
   deleted |-> FALSE,
   history |-> << [status |-> "Submitted", updatedBy |-> NoActor] >>]

\* updateStatus writing the new entry over the latest one instead of pushing.
updateStatusOverwrite(cl, newStatus, updatedBy) ==
  [cl EXCEPT !.history[Len(cl.history)] = [status |-> newStatus, updatedBy |-> updatedBy]]

updateStatus(cl, newStatus, updatedBy) ==
  [cl EXCEPT !.history = Append(@, [status |-> newStatus, updatedBy |-> updatedBy])]

\* Drop detection on an existing Analytics document an.
PreHistory(cl, an) ==
  LastN(SelectSeq(an.earningsHistory, LAMBDA h : h.date < cl.incidentDate), BaselineDays)
PostHistory(cl, an) ==
  FirstN(SelectSeq(an.earningsHistory, LAMBDA h : h.date >= cl.incidentDate), PostDays)
Mean(history, otherwise) ==
  IF Len(history) > 0 THEN SumAmounts(history) \div Len(history) ELSE otherwise
BaselineAvg(cl, an) == Mean(PreHistory(cl, an), an.avgDailyRevenue90d)
RecentAvg(cl, an) == Mean(PostHistory(cl, an), 0)
DropPercent(baselineAvg, recentAvg) ==
  IF baselineAvg > 0
  THEN Max2(0, ((baselineAvg - recentAvg) * Pct(100)) \div baselineAvg)
  ELSE 0
\* Days below 30% of baseline.
LostDays(postHistory, baselineAvg) ==
  Cardinality({i \in 1..Len(postHistory) : postHistory[i].amount * 10 < baselineAvg * 3})

DropOf(cl, an) == DropPercent(BaselineAvg(cl, an), RecentAvg(cl, an))
LostDaysOf(cl, an) == LostDays(PostHistory(cl, an), BaselineAvg(cl, an))

autoPullData(cl, an) ==
  [cl EXCEPT !.revenueDropPercent = DropOf(cl, an),
             !.baselineDaily = BaselineAvg(cl, an),
             !.lostDays = Max2(MinLostDays, LostDaysOf(cl, an)),
             !.monetizationStatus = "LIMITED",
             !.strikes = 0]

\* premium?.premiumDetails.monthlyCap || 65000
CapOf(cap) == IF cap = Undef \/ cap = 0 THEN DefaultMonthlyCap ELSE cap

\* this.evaluation.baselineDaily || 0
BaselineOrZero(cl) == IF cl.baselineDaily = Undef THEN 0 ELSE cl.baselineDaily

\* The payout without the cap.
PayoutUncapped(cl, cap) == (BaselineOrZero(cl) * 70 * cl.lostDays) \div 100

PayoutTotal(cl, cap) ==
  Min2((BaselineOrZero(cl) * 70 * cl.lostDays) \div 100, CapOf(cap))

SetPayout(cl, total) ==
  [cl EXCEPT !.payoutAmount = total, !.verifiedEarningsLoss = total]

calculatePayout(cl, cap) == SetPayout(cl, PayoutTotal(cl, cap))

\* enforceCoverage without the strike test.
enforceCoverageAnyStrikes(cl) ==
  IF /\ cl.coveredReason \in Covered
     /\ cl.revenueDropPercent >= Pct(DropThreshold)
     /\ cl.lostDays >= MinLostDays
  THEN "approve" ELSE "reject"

enforceCoverage(cl) ==
  IF /\ cl.coveredReason \in Covered
     /\ cl.revenueDropPercent >= Pct(DropThreshold)
     /\ cl.lostDays >= MinLostDays
     /\ cl.strikes < StrikeLimit
  THEN "approve" ELSE "reject"

\* Fraud flags: name -> penalty.
FlagNames == {"revenueSpike", "massUpload", "ipBlock", "copyrightMismatch",
              "appealRejected", "newChannel", "nameMismatch"}

\* Mean revenue of the 48 hours before the incident.
PreAvg(cl, an) ==
  Mean(SelectSeq(an.earningsHistory,
                 LAMBDA h : h.date < cl.incidentDate /\ h.date > cl.incidentDate - 2), 0)

FraudFlags(cl, user, preAvg) ==
  [revenueSpike |-> IF cl.baselineDaily # Undef /\ preAvg > cl.baselineDaily * 2
                    THEN SpikePenalty ELSE 0,
   massUpload |-> IF user.profile.massUpload THEN MassUploadPenalty ELSE 0,
   ipBlock |-> 0,
   copyrightMismatch |-> IF cl.coveredReason = "COPYRIGHT" THEN CopyrightPenalty ELSE 0,
   appealRejected |-> IF cl.appealStatus = "Rejected" THEN AppealRejectedPenalty ELSE 0,
   newChannel |-> IF user.profile.newChannel THEN NewChannelPenalty ELSE 0,
   nameMismatch |-> IF user.profile.nameMismatch THEN NameMismatchPenalty ELSE 0]

\* The penalty sum without the payment-identity signal.
PenaltyWithoutIdentity(flags) ==
  flags.revenueSpike + flags.massUpload + flags.ipBlock + flags.copyrightMismatch
    + flags.appealRejected + flags.newChannel

TotalPenalty(flags) ==
  flags.revenueSpike + flags.massUpload + flags.ipBlock + flags.copyrightMismatch
    + flags.appealRejected + flags.newChannel + flags.nameMismatch

ScoreOf(flags) == Max2(0, 100 - TotalPenalty(flags))

Reasons(flags) ==
  {[flag |-> k, penalty |-> flags[k]] : k \in {f \in FlagNames : flags[f] > 0}}

SetFraud(cl, score, reasons) ==
  [cl EXCEPT !.fraudScore = score,
             !.aiIsValid = IF score > AutoApproveAbove THEN "true" ELSE "false",
             !.confidenceScore = 90,
             !.reasons = reasons]

ScanWith(cl, flags) == SetFraud(cl, ScoreOf(flags), Reasons(flags))

scanFraud(cl, user, an) == ScanWith(cl, FraudFlags(cl, user, PreAvg(cl, an)))

\* $push on User.claimHistory.claims
PushClaimHistory(us, u, entry) ==
  [us EXCEPT ![u].claimHistory = Append(@, entry)]

\* processPayout: the claim side and the user side.
processPayoutClaim(cl, t) ==
  updateStatus([cl EXCEPT !.payoutDate = t + PayoutDelayDays,
                          !.mPesaTransactionId = t],
               "Paid", NoActor)
processPayoutUser(us, id, cl, amount) ==
  PushClaimHistory(us, cl.userId, [claimId |-> id, status |-> "Paid", payoutAmount |-> amount])

\* ----------------------------------------------------------- verifyClaim
TypeMap(itype) ==
  CASE itype = "Full suspension" -> "TEMP_SUSPEND"
    [] itype = "Limited ads" -> "AD_SUITS"
    [] itype = "Video demonetization" -> "POLICY_UPDATE"
    [] OTHER -> "OTHER_NOT_COVERED"

\* The filter { incidentDate: { $gte: thirtyDaysAgo } } names a path the Claim
\* schema does not have (the date is claimDetails.incidentDate).  With
\* strictQuery on, mongoose drops the condition; with it off, the condition
\* reaches MongoDB, where no document has the field and none matches.
IncidentDateFilter(other, thirtyDaysAgo) == strictQuery

RecentClaims(id, cl, cs, t) ==
  {j \in 1..Len(cs) :
     /\ ~cs[j].deleted
     /\ cs[j].userId = cl.userId
     /\ IncidentDateFilter(cs[j], t - WindowDays)
     /\ (HasStatus(cs[j], "Approved") \/ HasStatus(cs[j], "Paid"))
     /\ j # id}

\* Same day: incident dates less than 24 hours (one day) apart.
IsDuplicate(id, cl, cs, t) ==
  \E j \in RecentClaims(id, cl, cs, t) :
     LET d == cs[j].incidentDate - cl.incidentDate
     IN (IF d < 0 THEN 0 - d ELSE d) < 1

VResult(cl, us, threw, status, payout, fraudScore, stage) ==
  [claim |-> cl, users |-> us, threw |-> threw, status |-> status,
   payout |-> payout, fraudScore |-> fraudScore, stage |-> stage]

\* Step 5 with the auto-approval threshold compared by >= instead of >.
FraudBranchInclusive(id, cl, us, t) ==
  IF cl.fraudScore >= AutoApproveAbove
  THEN VResult(processPayoutClaim(updateStatus(cl, "Approved", NoActor), t),
               processPayoutUser(us, id, cl, cl.payoutAmount),
               FALSE, "Paid", cl.payoutAmount, cl.fraudScore, "fraud")
  ELSE IF cl.fraudScore >= ManualReviewFrom
  THEN VResult(updateStatus(cl, "Manual Review", NoActor), us,
               FALSE, "Under Review", Undef, cl.fraudScore, "fraud")
  ELSE VResult(updateStatus(cl, "Rejected", NoActor), us,
               TRUE, "none", Undef, Undef, "fraud")

\* Step 5 of verifyClaim: cl has been scored and its payout calculated.
FraudBranch(id, cl, us, t) ==
  IF cl.fraudScore > AutoApproveAbove
  THEN VResult(processPayoutClaim(updateStatus(cl, "Approved", NoActor), t),
               processPayoutUser(us, id, cl, cl.payoutAmount),
               FALSE, "Paid", cl.payoutAmount, cl.fraudScore, "fraud")
  ELSE IF cl.fraudScore >= ManualReviewFrom
  THEN VResult(updateStatus(cl, "Manual Review", NoActor), us,
               FALSE, "Under Review", Undef, cl.fraudScore, "fraud")
  \* the rejection is saved, then the standing update dereferences an
  \* identifier that is not declared in this scope: ReferenceError
  ELSE VResult(updateStatus(cl, "Rejected", NoActor), us,
               TRUE, "none", Undef, Undef, "fraud")

\* Step 4 with the fraud scan moved before the duplicate test: a claim that
\* scores above the auto-approval threshold is paid before the flag is read.
DuplicateBranchAfterScan(id, cl, us, an, cap, t) ==
  IF cl.doubleDipCheck /\ scanFraud(cl, us[cl.userId], an).fraudScore <= AutoApproveAbove
  THEN VResult(updateStatus(cl, "Rejected", NoActor), us,
               FALSE, "Rejected", Undef, Undef, "duplicate")
  ELSE FraudBranch(id, calculatePayout(scanFraud(cl, us[cl.userId], an), cap), us, t)

\* Step 4: cl carries the duplicate flag.
DuplicateBranch(id, cl, us, an, cap, t) ==
  IF cl.doubleDipCheck
  THEN VResult(updateStatus(cl, "Rejected", NoActor), us,
               FALSE, "Rejected", Undef, Undef, "duplicate")
  ELSE FraudBranch(id, calculatePayout(scanFraud(cl, us[cl.userId], an), cap), us, t)

\* Steps 2 and 3: cl carries the mapped covered reason.
CoverageBranch(id, cl, cs, us, an, cap, t) ==
  IF enforceCoverage(cl) = "reject"
  THEN VResult(updateStatus(cl, "Rejected", NoActor), us,
               FALSE, "Rejected", Undef, Undef, "coverage")
  ELSE DuplicateBranch(id, [cl EXCEPT !.doubleDipCheck = IsDuplicate(id, cl, cs, t)],
                       us, an, cap, t)

\* Step 1: cl carries the pulled drop metrics.
DropBranch(id, cl, cs, us, an, cap, t) ==
  IF cl.revenueDropPercent < Pct(DropThreshold) \/ cl.lostDays < MinLostDays
  THEN VResult(updateStatus(cl, "Rejected", NoActor), us,
               FALSE, "Rejected", Undef, Undef, "drop")
  ELSE CoverageBranch(id, [cl EXCEPT !.coveredReason = TypeMap(cl.incidentType)],
                      cs, us, an, cap, t)

PullBranch(id, cl, cs, us, an, cap, t) ==
  IF an = NoAnalytics
  THEN VResult(cl, us, TRUE, "none", Undef, Undef, "pull")
  ELSE DropBranch(id, autoPullData(cl, an), cs, us, an, cap, t)

verifyClaim(id, cs, us, ans, caps, t) ==
  PullBranch(id, cs[id], cs, us, ans[cs[id].userId], caps[cs[id].userId], t)

\* ---------------------------------------------------- handleReinstatement
\* The guard reads this.reinstated, which is not a path of the Claim schema
\* (the flag is evaluation.reinstated): it is always undefined.
ReinstatedGuardField(cl) == FALSE

CanReinstate(cl) == ~ReinstatedGuardField(cl) /\ HasStatus(cl, "Paid")

\* handleReinstatement asking the whole payout back instead of half of it.
handleReinstatementFullRepay(cl, reinstatedBy) ==
  updateStatus([cl EXCEPT !.reinstated = TRUE,
                          !.repayAmount = cl.payoutAmount],
               "Reinstated", reinstatedBy)

handleReinstatementClaim(cl, reinstatedBy) ==
  updateStatus([cl EXCEPT !.reinstated = TRUE,
                          !.repayAmount = cl.payoutAmount \div 2],
               "Reinstated", reinstatedBy)
handleReinstatementUser(us, u) ==
  [us EXCEPT ![u].fraudScore = Max2(ReinstateFloor, @ - ReinstatePenalty)]

\* ---------------------------------------------------------------- requests
Resp(op, id, code, status, payout, fraudScore, stage, results) ==
  [op |-> op, claim |-> id, code |-> code, status |-> status, payout |-> payout,
   fraudScore |-> fraudScore, stage |-> stage, results |-> results]

NoResponse == Resp("none", 0, 0, "none", 0, 0, "none", << >>)

ClaimIds == 1..Len(claims)

\* verificationResult.payout || 0
OrZero(x) == IF x = Undef THEN 0 ELSE x

\* Every request is counted; the build, the revenue histories, the policies
\* and the clock do not change during a run.
Served ==
  /\ requests < MaxRequests
  /\ requests' = requests + 1
  /\ UNCHANGED << strictQuery, analytics, premiums, now >>
  /\ UNCHANGED << account, premiumDocs, billing, runs >>

\* Claim.findById(id) finds nothing: the document was deleted.
Missing(id) == claims[id].deleted

NotFound(op, id) ==
  /\ response' = Resp(op, id, 404, "none", 0, 0, "none", << >>)
  /\ UNCHANGED << claims, users >>

\* What a handler does with the result v of verifyClaim on the collection cs.
Verified(op, id, cs, v, code, us, status, payout, fraudScore) ==
  /\ claims' = [cs EXCEPT ![id] = v.claim]
  /\ users' = us
  /\ response' = IF v.threw
                 THEN Resp(op, id, 500, "none", 0, 0, v.stage, << >>)
                 ELSE Resp(op, id, code, status, payout, fraudScore, v.stage, << >>)

\* POST /api/claims/submit
SubmitVerified(u, id, cs, v) ==
  Verified("submitClaim", id, cs, v, 201,
           IF v.threw THEN v.users
           ELSE PushClaimHistory(v.users, u, [claimId |-> id, status |-> v.status,
                                              payoutAmount |-> OrZero(v.payout)]),
           v.status, OrZero(v.payout), OrZero(v.fraudScore))

SubmitSaved(u, id, cs) ==
  SubmitVerified(u, id, cs, verifyClaim(id, cs, users, analytics, premiums, now))

SubmitClaim(u, itype, idate, appeal) ==
  /\ Served
  /\ Len(claims) < MaxClaims
  /\ SubmitSaved(u, Len(claims) + 1, Append(claims, NewClaim(u, itype, idate, appeal)))

\* PUT /api/claims/:id/evidence
EvidenceVerified(id, v) ==
  Verified("updateClaimEvidence", id, claims, v, 200, v.users, "none", 0, 0)

EvidenceFor(id, currentStatus) ==
  IF currentStatus \in {"Approved", "Rejected", "Paid", "Reinstated"}
  THEN /\ response' = Resp("updateClaimEvidence", id, 400, "none", 0, 0, "none", << >>)
       /\ UNCHANGED << claims, users >>
  ELSE IF currentStatus = "Under Review"
  THEN EvidenceVerified(id, verifyClaim(id, claims, users, analytics, premiums, now))
  ELSE /\ response' = Resp("updateClaimEvidence", id, 200, "none", 0, 0, "none", << >>)
       /\ UNCHANGED << claims, users >>

UpdateClaimEvidence(id) ==
  /\ Served
  /\ IF Missing(id) THEN NotFound("updateClaimEvidence", id)
     ELSE EvidenceFor(id, CurrentStatus(claims[id]))

\* POST /api/claims/admin/:id/evaluate-ai.  gemini is the answer of the
\* generative-AI call made for a score in 50..75: "fail" when the call or the
\* parsing of its answer throws, otherwise its isValid.
GeminiAnswers == {"true", "false", "fail"}

InBand(fraudScore) == fraudScore >= ManualReviewFrom /\ fraudScore <= AutoApproveAbove

EvaluateScanned(id, scanned, gemini) ==
  IF InBand(scanned.fraudScore) /\ gemini = "fail"
  THEN /\ claims' = [claims EXCEPT ![id] = scanned]
       /\ response' = Resp("evaluateClaimAI", id, 500, "none", 0, 0, "none", << >>)
  ELSE /\ claims' = [claims EXCEPT ![id] =
            updateStatus([scanned EXCEPT
                            !.aiIsValid = IF InBand(scanned.fraudScore) THEN gemini ELSE @,
                            !.confidenceScore = scanned.fraudScore],
                         "AI Reviewed", Admin)]
       /\ response' = Resp("evaluateClaimAI", id, 200, "none", 0, scanned.fraudScore,
                           "none", << >>)

EvaluateClaimAI(id, gemini) ==
  /\ Served
  /\ IF Missing(id) THEN NotFound("evaluateClaimAI", id)
     ELSE /\ EvaluateScanned(id, scanFraud(claims[id], users[claims[id].userId],
                                           analytics[claims[id].userId]), gemini)
          /\ UNCHANGED users

\* A review decision recorded on the claim.
Reviewed(cl, isValid) ==
  [cl EXCEPT !.manualReview = [reviewerId |-> Admin, isValid |-> isValid]]

\* POST /api/claims/admin/:id/review-manual
ReviewPaid(id, paid) ==
  /\ claims' = [claims EXCEPT ![id] =
                  processPayoutClaim(updateStatus(paid, "Approved", Admin), now)]
  /\ users' = processPayoutUser(users, id, paid, paid.payoutAmount)
  /\ response' = Resp("reviewClaimManual", id, 200, "Approved", paid.payoutAmount, 0,
                      "none", << >>)

ReviewClaimManual(id, isValid) ==
  /\ Served
  /\ IF Missing(id) THEN NotFound("reviewClaimManual", id)
     ELSE IF isValid = "true"
     THEN ReviewPaid(id, calculatePayout(Reviewed(claims[id], isValid),
                                         premiums[claims[id].userId]))
     ELSE /\ claims' = [claims EXCEPT ![id] =
                          updateStatus(Reviewed(claims[id], isValid), "Rejected", Admin)]
          /\ users' = users
          /\ response' = Resp("reviewClaimManual", id, 200, "Rejected", 0, 0, "none", << >>)

\* POST /api/claims/:id/appeal
AppealVerified(id, cs, v) ==
  Verified("submitAppeal", id, cs, v, 200, v.users, v.status, OrZero(v.payout), 0)

AppealSaved(id, cs) ==
  AppealVerified(id, cs, verifyClaim(id, cs, users, analytics, premiums, now))

\* submitAppeal without the test of the current status.
SubmitAppealAnyStatus(id, appealStatus) ==
  /\ Served
  /\ IF Missing(id) THEN NotFound("submitAppeal", id)
     ELSE AppealSaved(id, [claims EXCEPT ![id].appealStatus = appealStatus])

SubmitAppeal(id, appealStatus) ==
  /\ Served
  /\ IF Missing(id) THEN NotFound("submitAppeal", id)
     ELSE IF CurrentStatus(claims[id]) # "Rejected"
     THEN /\ response' = Resp("submitAppeal", id, 400, "none", 0, 0, "none", << >>)
          /\ UNCHANGED << claims, users >>
     ELSE AppealSaved(id, [claims EXCEPT ![id].appealStatus = appealStatus])

\* POST /api/claims/:id/reinstate
ReinstateClaim(id) ==
  /\ Served
  /\ IF Missing(id) THEN NotFound("reinstateClaim", id)
     ELSE IF CurrentStatus(claims[id]) # "Paid"
     THEN /\ response' = Resp("reinstateClaim", id, 400, "none", 0, 0, "none", << >>)
          /\ UNCHANGED << claims, users >>
     ELSE IF ~CanReinstate(claims[id]) \/ claims[id].payoutAmount = Undef
     THEN /\ response' = Resp("reinstateClaim", id, 500, "none", 0, 0, "none", << >>)
          /\ UNCHANGED << claims, users >>
     ELSE /\ claims' = [claims EXCEPT ![id] = handleReinstatementClaim(@, Admin)]
          /\ users' = handleReinstatementUser(users, claims[id].userId)
          /\ response' = Resp("reinstateClaim", id, 200, "none", 0, 0, "none", << >>)

\* POST /api/admin-claims/admin/bulk-review (AdminClaimsController).
\* One review of the request's array, applied to st = [claims, users, results].
Result(id, success, message, payout) ==
  [claimId |-> id, success |-> success, message |-> message, payout |-> payout]

ReviewApproved(st, id, paid, t) ==
  [claims |-> [st.claims EXCEPT ![id] =
                 updateStatus(processPayoutClaim(paid, t), "Approved", Admin)],
   users |-> processPayoutUser(st.users, id, paid, paid.payoutAmount),
   results |-> Append(st.results, Result(id, TRUE, "approved", paid.payoutAmount))]

ApplyReviewTo(st, id, cl, isValid, t) ==
  IF cl.deleted
  THEN [st EXCEPT !.results = Append(@, Result(id, FALSE, "not found", 0))]
  ELSE IF CurrentStatus(cl) \notin {"Under Review", "Manual Review"}
  THEN [st EXCEPT !.results = Append(@, Result(id, FALSE, "not eligible", 0))]
  ELSE IF isValid = "true"
  THEN ReviewApproved(st, id, calculatePayout(Reviewed(cl, isValid), premiums[cl.userId]), t)
  ELSE [claims |-> [st.claims EXCEPT ![id] =
                      updateStatus(Reviewed(cl, isValid), "Rejected", Admin)],
        users |-> st.users,
        results |-> Append(st.results, Result(id, TRUE, "rejected", 0))]

ApplyReview(st, review, t) ==
  ApplyReviewTo(st, review.claimId, st.claims[review.claimId], review.isValid, t)

RECURSIVE ApplyReviews(_, _, _)
ApplyReviews(st, reviews, t) ==
  IF reviews = << >> THEN st
  ELSE ApplyReviews(ApplyReview(st, Head(reviews), t), Tail(reviews), t)

BatchesOf(inputs) == UNION {[1..n -> inputs] : n \in 1..MaxBatch}

Reply(op, st) ==
  /\ claims' = st.claims
  /\ users' = st.users
  /\ response' = Resp(op, 0, 200, "none", 0, 0, "none", st.results)

BulkReviewClaims(reviews) ==
  /\ Served
  /\ Reply("bulkReviewClaims",
           ApplyReviews([claims |-> claims, users |-> users, results |-> << >>],
                        reviews, now))

\* bulkReviewClaims of AdminContentController: the admin supplies the payout.
PayoutInputs == {Undef, 70000, 0 - 5}

\* isValid ? Number(payoutAmount) || claim.evaluation.verifiedEarningsLoss : 0
SuppliedPayout(cl, isValid, payoutAmount) ==
  IF isValid # "true" THEN 0
  ELSE IF payoutAmount = Undef \/ payoutAmount = 0 THEN cl.verifiedEarningsLoss
  ELSE payoutAmount

\* payoutAmount has min: 0 in the schema: save() rejects a negative amount
\* and the document in the collection is not written.
ApplyContentReviewTo(st, id, cl, isValid, amount) ==
  IF cl.deleted
  THEN [st EXCEPT !.results = Append(@, Result(id, FALSE, "not found", 0))]
  ELSE IF amount # Undef /\ amount < 0
  THEN [st EXCEPT !.results = Append(@, Result(id, FALSE, "validation", 0))]
  ELSE [claims |-> [st.claims EXCEPT ![id] =
                      updateStatus([Reviewed(cl, isValid) EXCEPT !.payoutAmount = amount],
                                   IF isValid = "true" THEN "Approved" ELSE "Rejected",
                                   Admin)],
        users |-> st.users,
        results |-> Append(st.results,
                           Result(id, TRUE, IF isValid = "true" THEN "approved" ELSE "rejected", 0))]

ApplyContentReview(st, review) ==
  ApplyContentReviewTo(st, review.claimId, st.claims[review.claimId], review.isValid,
                       SuppliedPayout(st.claims[review.claimId], review.isValid,
                                      review.payoutAmount))

RECURSIVE ApplyContentReviews(_, _)
ApplyContentReviews(st, reviews) ==
  IF reviews = << >> THEN st
  ELSE ApplyContentReviews(ApplyContentReview(st, Head(reviews)), Tail(reviews))

BulkReviewClaimsContent(reviews) ==
  /\ Served
  /\ Reply("bulkReviewClaimsContent",
           ApplyContentReviews([claims |-> claims, users |-> users, results |-> << >>],
                               reviews))

\* DELETE /api/claims/:id
RECURSIVE Pull(_, _)
Pull(history, id) ==
  IF history = << >> THEN << >>
  ELSE IF Head(history).claimId = id THEN Pull(Tail(history), id)
  ELSE << Head(history) >> \o Pull(Tail(history), id)

DeleteClaim(id) ==
  /\ Served
  /\ IF Missing(id) THEN NotFound("deleteClaim", id)
     ELSE IF CurrentStatus(claims[id]) # "Submitted"
     THEN /\ response' = Resp("deleteClaim", id, 400, "none", 0, 0, "none", << >>)
          /\ UNCHANGED << claims, users >>
     ELSE /\ claims' = [claims EXCEPT ![id].deleted = TRUE]
          /\ users' = [users EXCEPT ![claims[id].userId].claimHistory = Pull(@, id)]
          /\ response' = Resp("deleteClaim", id, 200, "none", 0, 0, "none", << >>)

\* ---------------------------------------------------------------- premiums
\* Percentages are kept in hundredths of a percent (Pct(2) is 2%), amounts and
\* earnings in whole KSh; a quotient is rounded down to that resolution.
MinPremium == 1000
MaxPremium == 5000
MinEarnings == 65000
MinStanding == 70
LowFraudAbove == 90
LowFraudDiscount == 10
PreventiveDiscount == 5
DueDays == 30
GraceDays == 7

\* Math.max(Math.min(x, hi), lo)
Clamp(x, lo, hi) == Max2(Min2(x, hi), lo)

\* Math.max(Math.min((percentage / 100) * monthlyEarnings, 5000), 1000)
LockedAmount(percentage, monthlyEarnings) ==
  Clamp((percentage * monthlyEarnings) \div Pct(100), MinPremium, MaxPremium)

\* Math.max(Math.min(percentage, 5), 2)
LockedPercentage(percentage) == Clamp(percentage, Pct(2), Pct(5))

\* new Premium({...}) with the schema defaults; dueDate has none.
NewPremium(basePercentage, finalPercentage, finalAmount, dueDate) ==
  [basePercentage |-> basePercentage,
   discount |-> [percentage |-> 0, preventiveServiceDiscount |-> 0],
   finalPercentage |-> finalPercentage, finalAmount |-> finalAmount,
   monthlyCap |-> DefaultMonthlyCap, dueDate |-> dueDate,
   manualAdjustment |-> [percentage |-> 0, reason |-> "", adjustedBy |-> NoActor],
   adjustmentHistory |-> << >>, creatorEstimations |-> << >>,
   adminEstimations |-> << >>, calculations |-> << >>]

\* The schema's validators, run by save().
Validates(doc) ==
  /\ doc.dueDate # Undef
  /\ doc.basePercentage >= 0
  /\ doc.discount.percentage \in 0..100
  /\ doc.discount.preventiveServiceDiscount \in 0..15
  /\ Pct(2) <= doc.finalPercentage /\ doc.finalPercentage <= Pct(5)
  /\ MinPremium <= doc.finalAmount /\ doc.finalAmount <= MaxPremium
  /\ \A k \in 1..Len(doc.adjustmentHistory) :
       /\ doc.adjustmentHistory[k].adjustedBy # NoActor
       /\ doc.adjustmentHistory[k].reason # ""

\* Outcome of a Premium method: the collection, the document the method
\* worked on (none: << >>) and whether it threw.
Outcome(docs, premium, threw) == [docs |-> docs, premium |-> premium, threw |-> threw]

\* this.save() of the document found or created at position i.
Save(docs, i, doc) ==
  IF ~Validates(doc) THEN Outcome(docs, << doc >>, TRUE)
  ELSE IF i > Len(docs) THEN Outcome(Append(docs, doc), << doc >>, FALSE)
  ELSE Outcome([docs EXCEPT ![i] = doc], << doc >>, FALSE)

LowFraud(user) == user.fraudScore > LowFraudAbove
DiscountPct(user) == IF LowFraud(user) THEN LowFraudDiscount ELSE 0

Discounted(doc, user) ==
  IF LowFraud(user)
  THEN [doc EXCEPT !.discount = [percentage |-> LowFraudDiscount,
                                 preventiveServiceDiscount |-> PreventiveDiscount]]
  ELSE doc

SetFinal(doc, percentage, monthlyEarnings) ==
  [doc EXCEPT !.finalPercentage = percentage,
              !.finalAmount = LockedAmount(percentage, monthlyEarnings)]

\* The document checkContentReviewDiscount hands to save():
\* adjustedPercentage = basePercentage - (discountPct / 100), locked to 2..5.
DiscountChecked(doc, user) ==
  SetFinal(Discounted(doc, user),
           LockedPercentage(doc.basePercentage - (Pct(DiscountPct(user)) \div 100)),
           user.monthlyEarnings)

checkContentReviewDiscount(docs, i, doc, user) == Save(docs, i, DiscountChecked(doc, user))

Estimation(percentage, amount, estimatedBy) ==
  [estimatedPercentage |-> percentage, estimatedAmount |-> amount, estimatedBy |-> estimatedBy]

PushEstimation(doc, estimatorRole, estimation) ==
  IF estimatorRole = "Creator"
  THEN [doc EXCEPT !.creatorEstimations = Append(@, estimation)]
  ELSE [doc EXCEPT !.adminEstimations = Append(@, estimation)]

Estimate(docs, eligible, percentage, amount) ==
  [docs |-> docs, eligible |-> eligible, estimatedPercentage |-> percentage,
   estimatedAmount |-> amount]

\* findOne or new, push of the estimation, save.
EstimateSaved(docs, estimatorRole, estimatorId, finalAmount, t) ==
  Estimate(Save(docs, 1,
                PushEstimation(IF docs = << >>
                               THEN NewPremium(Pct(2), Pct(2), finalAmount, t + DueDays)
                               ELSE docs[1],
                               estimatorRole,
                               Estimation(Pct(2), finalAmount,
                                          IF estimatorRole = "Admin" THEN estimatorId ELSE NoActor))).docs,
           TRUE, Pct(2), finalAmount)

estimatePremium(docs, user, estimatorRole, estimatorId, t) ==
  IF user.monthlyEarnings < MinEarnings
  THEN Estimate(docs, FALSE, Undef, Undef)
  ELSE EstimateSaved(docs, estimatorRole, estimatorId,
                     LockedAmount(Pct(2), user.monthlyEarnings), t)

Created(estimate, t) ==
  Save(estimate.docs, Len(estimate.docs) + 1,
       NewPremium(Pct(2), estimate.estimatedPercentage, estimate.estimatedAmount,
                  t + GraceDays))

createFromApplication(docs, user, t) ==
  IF user.monthlyEarnings < MinEarnings \/ user.fraudScore < MinStanding
  THEN Outcome(docs, << >>, TRUE)
  ELSE Created(estimatePremium(docs, user, "Admin", NoActor, t), t)

Calculation(doc, finalAmount, calculatedBy) ==
  [basePercentage |-> doc.basePercentage, discount |-> doc.discount,
   finalPercentage |-> doc.finalPercentage, finalAmount |-> finalAmount,
   calculatedBy |-> calculatedBy]

Recalculated(doc, finalAmount, adminId, t) ==
  [doc EXCEPT !.finalAmount = finalAmount,
              !.calculations = Append(@, Calculation(doc, finalAmount, adminId)),
              !.dueDate = t + DueDays]

RecalculateChecked(checked, i, user, adminId, t) ==
  IF checked.threw THEN checked
  ELSE Save(checked.docs, i,
            Recalculated(checked.premium[1],
                         LockedAmount(checked.premium[1].finalPercentage, user.monthlyEarnings),
                         adminId, t))

recalculatePremium(docs, i, doc, user, adminId, t) ==
  RecalculateChecked(checkContentReviewDiscount(docs, i, doc, user), i, user, adminId, t)

\* this.premiumDetails.finalAmount * (1 + adjustmentPercentage / 100), locked.
AdjustedAmount(doc, adjustmentPercentage) ==
  Clamp((doc.finalAmount * (100 + adjustmentPercentage)) \div 100, MinPremium, MaxPremium)

AdjustedPercentage(doc, user, newFinalAmount) ==
  LockedPercentage(IF user.monthlyEarnings > 0
                   THEN (newFinalAmount * Pct(100)) \div user.monthlyEarnings
                   ELSE doc.finalPercentage)

Adjustment(adjustmentPercentage, reason, adminId, newFinalAmount, newFinalPercentage) ==
  [percentage |-> adjustmentPercentage, reason |-> reason, adjustedBy |-> adminId,
   newFinalAmount |-> newFinalAmount, newFinalPercentage |-> newFinalPercentage]

\* adjustPremium changing the premium without an entry in the history.
AdjustedUnrecorded(doc, adjustmentPercentage, reason, adminId, newFinalAmount, newFinalPercentage) ==
  [doc EXCEPT !.finalAmount = newFinalAmount,
              !.finalPercentage = newFinalPercentage,
              !.manualAdjustment = [percentage |-> adjustmentPercentage, reason |-> reason,
                                    adjustedBy |-> adminId]]

Adjusted(doc, adjustmentPercentage, reason, adminId, newFinalAmount, newFinalPercentage) ==
  [doc EXCEPT !.finalAmount = newFinalAmount,
              !.finalPercentage = newFinalPercentage,
              !.manualAdjustment = [percentage |-> adjustmentPercentage, reason |-> reason,
                                    adjustedBy |-> adminId],
              !.adjustmentHistory =
                 Append(@, Adjustment(adjustmentPercentage, reason, adminId,
                                      newFinalAmount, newFinalPercentage))]

\* save() without the validators.
Stored(docs, i, doc) == Outcome([docs EXCEPT ![i] = doc], << doc >>, FALSE)

\* adjustPremium storing the product as computed, without the range lock and
\* without validation.
adjustPremiumUnlocked(docs, i, user, adjustmentPercentage, reason, adminId) ==
  Stored(docs, i,
         Adjusted(docs[i], adjustmentPercentage, reason, adminId,
                  (docs[i].finalAmount * (100 + adjustmentPercentage)) \div 100,
                  docs[i].finalPercentage))

adjustPremium(docs, i, user, adjustmentPercentage, reason, adminId) ==
  Save(docs, i,
       Adjusted(docs[i], adjustmentPercentage, reason, adminId,
                AdjustedAmount(docs[i], adjustmentPercentage),
                AdjustedPercentage(docs[i], user, AdjustedAmount(docs[i], adjustmentPercentage))))

\* -------------------------------------------------------- premium handlers
Bill(op, code, premium) == [op |-> op, code |-> code, premium |-> premium]
NoBill == Bill("none", 0, << >>)

\* Every premium request is counted; the claims side is left alone.
Billed ==
  /\ requests < MaxRequests
  /\ requests' = requests + 1
  /\ UNCHANGED << strictQuery, analytics, premiums, users, claims, now, response, runs >>

\* Premium.findOne({ 'premiumDetails.userId': userId })
FindOne(docs) == IF docs = << >> THEN << >> ELSE << docs[1] >>

\* PremiumController.estimatePremium
EstimateDone(estimate) ==
  /\ premiumDocs' = estimate.docs
  /\ billing' = Bill("estimatePremium", 200, FindOne(estimate.docs))
  /\ UNCHANGED account

EstimatePremium(estimatorRole) ==
  /\ Billed
  /\ EstimateDone(estimatePremium(premiumDocs, account, estimatorRole, Admin, now))

\* reviewInsuranceApplication
Approved(created) ==
  IF created.threw
  THEN /\ billing' = Bill("reviewInsuranceApplication", 500, << >>)
       /\ UNCHANGED << account, premiumDocs >>
  ELSE /\ premiumDocs' = created.docs
       /\ account' = [account EXCEPT !.status = "Approved",
                                     !.premium.amount = created.premium[1].finalAmount]
       /\ billing' = Bill("reviewInsuranceApplication", 200, created.premium)

ReviewInsuranceApplication(action) ==
  /\ Billed
  /\ IF account.status # "Pending"
     THEN /\ billing' = Bill("reviewInsuranceApplication", 400, << >>)
          /\ UNCHANGED << account, premiumDocs >>
     ELSE IF action = "approve"
     THEN Approved(createFromApplication(premiumDocs, account, now))
     ELSE /\ account' = [account EXCEPT !.status = "Rejected"]
          /\ premiumDocs' = IF premiumDocs = << >> THEN << >> ELSE Tail(premiumDocs)
          /\ billing' = Bill("reviewInsuranceApplication", 200, << >>)

\* calculatePremium: the document found, or a new one without a due date.
\* PremiumController.js starts the new document at 2% and a floor of 1000,
\* the other calculatePremium of the repository at 5% and a floor of 100.
Uncalculated(basePercentage, user) ==
  NewPremium(basePercentage, basePercentage,
             Max2((basePercentage * user.monthlyEarnings) \div Pct(100),
                  IF basePercentage = Pct(2) THEN 1000 ELSE 100),
             Undef)

Calculated(result) ==
  IF result.threw
  THEN /\ billing' = Bill("calculatePremium", 500, result.premium)
       /\ UNCHANGED << account, premiumDocs >>
  ELSE /\ premiumDocs' = result.docs
       /\ account' = [account EXCEPT !.premium =
                        [amount |-> result.premium[1].finalAmount,
                         discountApplied |-> result.premium[1].discount.percentage > 0]]
       /\ billing' = Bill("calculatePremium", 200, result.premium)

CalculatePremium(basePercentage) ==
  /\ Billed
  /\ IF account.status # "Approved"
     THEN /\ billing' = Bill("calculatePremium", 400, << >>)
          /\ UNCHANGED << account, premiumDocs >>
     ELSE Calculated(recalculatePremium(premiumDocs, 1,
                                        IF premiumDocs = << >>
                                        THEN Uncalculated(basePercentage, account)
                                        ELSE premiumDocs[1],
                                        account, Admin, now))

\* applyContentReviewDiscount
DiscountApplied(result) ==
  /\ premiumDocs' = result.docs
  /\ IF result.threw
     THEN /\ billing' = Bill("applyContentReviewDiscount", 500, result.premium)
          /\ UNCHANGED account
     ELSE IF ~LowFraud(account)
     THEN /\ billing' = Bill("applyContentReviewDiscount", 400, result.premium)
          /\ UNCHANGED account
     ELSE /\ account' = [account EXCEPT !.premium =
                           [amount |-> result.premium[1].finalAmount,
                            discountApplied |-> TRUE]]
          /\ billing' = Bill("applyContentReviewDiscount", 200, result.premium)

ApplyContentReviewDiscount ==
  /\ Billed
  /\ IF premiumDocs = << >>
     THEN /\ billing' = Bill("applyContentReviewDiscount", 404, << >>)
          /\ UNCHANGED << account, premiumDocs >>
     ELSE DiscountApplied(checkContentReviewDiscount(premiumDocs, 1, premiumDocs[1], account))

\* PremiumController.adjustPremium on the document with id i.
AdjustDone(result) ==
  IF result.threw
  THEN /\ billing' = Bill("adjustPremium", 500, << >>)
       /\ UNCHANGED << account, premiumDocs >>
  ELSE /\ premiumDocs' = result.docs
       /\ account' = [account EXCEPT !.premium.amount = result.premium[1].finalAmount]
       /\ billing' = Bill("adjustPremium", 200, result.premium)

AdjustPremium(i, adjustmentPercentage, reason) ==
  /\ Billed
  /\ AdjustDone(adjustPremium(premiumDocs, i, account, adjustmentPercentage, reason, Admin))

\* bulkAdjustPremiums (AdminPremiumController): one adjustment of the request's
\* array, applied to st = [docs, account, results].  As for every handler,
\* the caller's id is the one the handler reads from req.user.
AdjustResult(premiumId, success) == [premiumId |-> premiumId, success |-> success]

AdjustmentDone(st, premiumId, result) ==
  IF result.threw
  THEN [st EXCEPT !.results = Append(@, AdjustResult(premiumId, FALSE))]
  ELSE [docs |-> result.docs,
        account |-> [st.account EXCEPT !.premium.amount = result.premium[1].finalAmount],
        results |-> Append(st.results, AdjustResult(premiumId, TRUE))]

ApplyAdjustment(st, adjustment, adminId) ==
  IF adjustment.premiumId > Len(st.docs)
  THEN [st EXCEPT !.results = Append(@, AdjustResult(adjustment.premiumId, FALSE))]
  ELSE AdjustmentDone(st, adjustment.premiumId,
                      adjustPremium(st.docs, adjustment.premiumId, st.account,
                                    adjustment.adjustmentPercentage, adjustment.reason,
                                    adminId))

RECURSIVE ApplyAdjustments(_, _, _)
ApplyAdjustments(st, adjustments, adminId) ==
  IF adjustments = << >> THEN st
  ELSE ApplyAdjustments(ApplyAdjustment(st, Head(adjustments), adminId),
                        Tail(adjustments), adminId)

BulkBill(results) ==
  [op |-> "bulkAdjustPremiums", code |-> 200, premium |-> << >>, results |-> results]

BulkAdjusted(st) ==
  /\ premiumDocs' = st.docs
  /\ account' = st.account
  /\ billing' = BulkBill(st.results)

BulkAdjustPremiums(adjustments) ==
  /\ Billed
  /\ BulkAdjusted(ApplyAdjustments([docs |-> premiumDocs, account |-> account,
                                    results |-> << >>],
                                   adjustments, Admin))

\* The sign-in callback copies the channel's estimated monthly earnings.
SyncEarnings(estimateMonthlyEarnings) ==
  /\ Billed
  /\ account' = [account EXCEPT !.monthlyEarnings = estimateMonthlyEarnings]
  /\ billing' = Bill("syncEarnings", 200, << >>)
  /\ UNCHANGED premiumDocs

\* The billed user after applyForInsurance: the application is pending.
InitialAccount(monthlyEarnings, fraudScore) ==
  [monthlyEarnings |-> monthlyEarnings, fraudScore |-> fraudScore, status |-> "Pending",
   premium |-> [amount |-> 0, discountApplied |-> FALSE]]

\* -------------------------------------------------------------------- spec
Init ==
  /\ strictQuery \in BOOLEAN
  /\ analytics \in {[u \in Users |-> Hist], [u \in Users |-> IF u = 1 THEN Hist ELSE NoAnalytics]}
  /\ premiums = [u \in Users |-> DefaultMonthlyCap]
  /\ users = [u \in Users |->
                [profile |-> InitialProfile(u),
                 fraudScore |-> InitialStanding(u),
                 claimHistory |-> << >>]]
  /\ claims = << >>
  /\ now = 10
  /\ response = NoResponse
  /\ requests = 0
  /\ account = InitialAccount(0, 0)
  /\ premiumDocs = << >>
  /\ billing = NoBill
  /\ runs = << >>

BoolInputs == {"true", "false"}

Next ==
  \/ \E u \in Users, itype \in SubmittedTypes, idate \in IncidentDates, appeal \in SubmittedAppeals :
       SubmitClaim(u, itype, idate, appeal)
  \/ \E id \in ClaimIds : UpdateClaimEvidence(id)
  \/ \E id \in ClaimIds, gemini \in GeminiAnswers : EvaluateClaimAI(id, gemini)
  \/ \E id \in ClaimIds, isValid \in BoolInputs : ReviewClaimManual(id, isValid)
  \/ \E id \in ClaimIds, appealStatus \in {"In progress", "Rejected"} : SubmitAppeal(id, appealStatus)
  \/ \E id \in ClaimIds : ReinstateClaim(id)
  \/ \E id \in ClaimIds : DeleteClaim(id)
  \/ \E reviews \in BatchesOf([claimId : ClaimIds, isValid : BoolInputs]) : BulkReviewClaims(reviews)
  \/ \E reviews \in BatchesOf([claimId : ClaimIds, isValid : BoolInputs, payoutAmount : PayoutInputs]) :
       BulkReviewClaimsContent(reviews)

Spec == Init /\ [][Next]_vars

\* The premium side on its own: the claims side stays as constructed.
EarningsInputs == {0, 70000, 100000, 300000}
StandingInputs == {50, 70, 95}
AdjustmentInputs == {0 - 100000, 0 - 50, 100, 100000}

\* Premium ids a request can name: those in the collection and one that is not.
PremiumIds == 1..(Len(premiumDocs) + 1)

PremiumInit ==
  /\ strictQuery = TRUE
  /\ analytics = [u \in Users |-> Hist]
  /\ premiums = [u \in Users |-> DefaultMonthlyCap]
  /\ users = [u \in Users |->
                [profile |-> InitialProfile(u),
                 fraudScore |-> InitialStanding(u),
                 claimHistory |-> << >>]]
  /\ claims = << >>
  /\ now = 10
  /\ response = NoResponse
  /\ requests = 0
  /\ account \in {InitialAccount(e, f) : e \in EarningsInputs, f \in StandingInputs}
  /\ premiumDocs = << >>
  /\ billing = NoBill
  /\ runs = << >>

PremiumNext ==
  \/ \E estimatorRole \in {"Creator", "Admin"} : EstimatePremium(estimatorRole)
  \/ \E action \in {"approve", "reject"} : ReviewInsuranceApplication(action)
  \/ \E basePercentage \in {Pct(2), Pct(5)} : CalculatePremium(basePercentage)
  \/ ApplyContentReviewDiscount
  \/ \E i \in 1..Len(premiumDocs), adjustmentPercentage \in AdjustmentInputs :
       AdjustPremium(i, adjustmentPercentage, "risk review")
  \/ \E e \in EarningsInputs : SyncEarnings(e)
  \/ \E adjustments \in BatchesOf([premiumId : PremiumIds,
                                     adjustmentPercentage : AdjustmentInputs,
                                     reason : {"risk review"}]) :
       BulkAdjustPremiums(adjustments)

PremiumSpec == PremiumInit /\ [][PremiumNext]_vars

\* The premium calculation on its own, applied to a stored document with any
\* base percentage the schema admits (calculatePremium builds documents at 2%
\* and at 5%), for an approved user.
BaseInputs == {0, Pct(2), Pct(3), Pct(5), Pct(8)}

StoredPremium(basePercentage, user, t) ==
  NewPremium(basePercentage, LockedPercentage(basePercentage),
             LockedAmount(LockedPercentage(basePercentage), user.monthlyEarnings),
             t + DueDays)

CalculationInit ==
  /\ strictQuery = TRUE
  /\ analytics = [u \in Users |-> Hist]
  /\ premiums = [u \in Users |-> DefaultMonthlyCap]
  /\ users = [u \in Users |->
                [profile |-> InitialProfile(u),
                 fraudScore |-> InitialStanding(u),
                 claimHistory |-> << >>]]
  /\ claims = << >>
  /\ now = 10
  /\ response = NoResponse
  /\ requests = 0
  /\ account \in {[InitialAccount(e, f) EXCEPT !.status = "Approved"] :
                     e \in EarningsInputs, f \in StandingInputs}
  /\ premiumDocs \in {<< StoredPremium(b, account, now) >> : b \in BaseInputs}
  /\ billing = NoBill
  /\ runs = << >>

CalculationNext ==
  \/ ApplyContentReviewDiscount
  \/ \E basePercentage \in {Pct(2), Pct(5)} : CalculatePremium(basePercentage)
  \/ \E e \in EarningsInputs : SyncEarnings(e)

CalculationSpec == CalculationInit /\ [][CalculationNext]_vars

\* ------------------------------------------------------------ properties
\* Operations that run verifyClaim, and those of them whose response and
\* claim-history entry carry the status verifyClaim returned.
VerifyOps == {"submitClaim", "submitAppeal", "updateClaimEvidence"}
ReportingOps == {"submitClaim", "submitAppeal"}

StatusSeq(cl) == [i \in 1..Len(cl.history) |-> cl.history[i].status]

\* Length of claim id's status history before the step (a claim created by
\* the step starts with its Submitted entry).
LenBefore(id) == IF id \in ClaimIds THEN Len(claims[id].history) ELSE 1

\* Statuses the step appended to claim id's history.
Appended(id) ==
  SubSeq(StatusSeq(claims'[id]), LenBefore(id) + 1, Len(claims'[id].history))

PaysNow(id) == \E i \in 1..Len(Appended(id)) : Appended(id)[i] = "Paid"

\* Number of Paid entries of user u's claim history.
PaidEntries(us, u) ==
  Cardinality({i \in 1..Len(us[u].claimHistory) : us[u].claimHistory[i].status = "Paid"})

\* verifyClaim ran on claim response.claim and reached the given stages.
Verified_At(resp, stages) == resp.op \in VerifyOps /\ resp.stage \in stages

C3_NoQualifyingLossRejected ==
  [][Verified_At(response', {"drop", "coverage", "duplicate", "fraud"})
       => LET id == response'.claim
              cl == claims'[id]
          IN (\/ DropOf(cl, analytics[cl.userId]) < Pct(DropThreshold)
              \/ LostDaysOf(cl, analytics[cl.userId]) < MinLostDays)
               => /\ CurrentStatus(cl) = "Rejected"
                  /\ ~PaysNow(id)
                  /\ PaidEntries(users', cl.userId) = PaidEntries(users, cl.userId)]_vars

\* C4: a claim with Approved in its history and a payout amount has
\* 0 <= payoutAmount <= monthlyCap of its policy.
C4_PayoutWithinCap ==
  \A id \in ClaimIds :
    (HasStatus(claims[id], "Approved") /\ claims[id].payoutAmount # Undef)
      => /\ 0 <= claims[id].payoutAmount
         /\ claims[id].payoutAmount <= CapOf(premiums[claims[id].userId])

\* C5: a reinstatement request on a claim that has been reinstated fails
\* and leaves the claim and the user's standing unchanged.
C5_ReinstatedOnce ==
  [][\A id \in ClaimIds :
       (claims[id].reinstated /\ response'.op = "reinstateClaim" /\ response'.claim = id)
         => /\ response'.code \in {400, 500}
            /\ claims'[id] = claims[id]
            /\ users'[claims[id].userId].fraudScore = users[claims[id].userId].fraudScore]_vars

\* Another claim of the same user that reached Approved or Paid, with its
\* incident in the trailing 30 days and within 24 hours of cl's incident.
SameEvent(id, cl) ==
  \E j \in ClaimIds :
    /\ j # id
    /\ ~claims[j].deleted
    /\ claims[j].userId = cl.userId
    /\ (HasStatus(claims[j], "Approved") \/ HasStatus(claims[j], "Paid"))
    /\ claims[j].incidentDate >= now - WindowDays
    /\ claims[j].incidentDate = cl.incidentDate

\* C6: verifyClaim reaching the duplicate check on a claim with a same-event
\* claim sets the duplicate flag and ends Rejected as a duplicate, payout 0.
C6_DuplicateRejected ==
  (Verified_At(response, {"duplicate", "fraud"})
     /\ SameEvent(response.claim, claims[response.claim]))
    => /\ claims[response.claim].doubleDipCheck
       /\ response.stage = "duplicate"
       /\ CurrentStatus(claims[response.claim]) = "Rejected"
       /\ response.payout = 0

Decided(id) ==
  \/ response'.op = "reviewClaimManual" /\ response'.claim = id /\ response'.code = 200
  \/ /\ response'.op = "bulkReviewClaims"
     /\ \E k \in 1..Len(response'.results) :
          response'.results[k].claimId = id /\ response'.results[k].success

Before(id) ==
  IF id \in ClaimIds THEN claims[id]
  ELSE NewClaim(claims'[id].userId, claims'[id].incidentType,
                claims'[id].incidentDate, claims'[id].appealStatus)

\* What scanFraud and calculatePayout write.
ScoringFields(cl) ==
  << cl.fraudScore, cl.aiIsValid, cl.confidenceScore, cl.reasons,
     cl.payoutAmount, cl.verifiedEarningsLoss >>

DropPassed(cl) == cl.revenueDropPercent >= Pct(70) /\ cl.lostDays >= 3

\* C11: a verifyClaim run stops at the first step that fails, in the order
\* drop, coverage, duplicate, fraud: a run that ends at the drop, coverage
\* or duplicate step appends Rejected alone and leaves the fraud score and
\* the payout fields as they were; a run flagged as a duplicate never
\* reaches the fraud step; the fraud step is reached only by a claim that
\* passed the three earlier steps.
C11_StepOrder ==
  [][Verified_At(response', {"drop", "coverage", "duplicate", "fraud"})
       => LET id == response'.claim
              cl == claims'[id]
              stage == response'.stage
          IN /\ stage = "drop"
                  => /\ ~DropPassed(cl)
                     /\ cl.coveredReason = Before(id).coveredReason
                     /\ cl.doubleDipCheck = Before(id).doubleDipCheck
             /\ stage = "coverage"
                  => /\ DropPassed(cl)
                     /\ (cl.coveredReason \notin Covered \/ cl.strikes >= 3)
                     /\ cl.doubleDipCheck = Before(id).doubleDipCheck
             /\ stage = "duplicate"
                  => /\ DropPassed(cl)
                     /\ cl.coveredReason \in Covered
                     /\ cl.doubleDipCheck
             /\ stage # "fraud"
                  => /\ Appended(id) = << "Rejected" >>
                     /\ ScoringFields(cl) = ScoringFields(Before(id))
                     /\ users' = users \/ response'.op = "submitClaim"
             /\ stage = "fraud"
                  => /\ DropPassed(cl)
                     /\ cl.coveredReason \in Covered
                     /\ ~cl.doubleDipCheck]_vars

\* A duplicate rejected although its fraud score would have auto-approved it.
C11_Witness ==
  /\ Verified_At(response, {"duplicate"})
  /\ CurrentStatus(claims[response.claim]) = "Rejected"
  /\ scanFraud(claims[response.claim], users[claims[response.claim].userId],
               analytics[claims[response.claim].userId]).fraudScore > 75

WithAppeal(id, appealStatus) == [claims EXCEPT ![id].appealStatus = appealStatus]

C14_EvidenceReverifies ==
  [][\A id \in ClaimIds :
       (response'.op = "updateClaimEvidence" /\ response'.claim = id /\ ~claims[id].deleted)
         => /\ CurrentStatus(claims[id]) \in {"Submitted", "Under Review", "Manual Review"}
                 => response'.stage \in {"pull", "drop", "coverage", "duplicate", "fraud"}
            /\ CurrentStatus(claims[id]) \in {"Approved", "Rejected", "Paid", "Reinstated"}
                 => /\ response'.code = 400
                    /\ claims' = claims
                    /\ users' = users]_vars

\* C15: the status history of a claim whose current status is Reinstated
\* never changes; that of a Paid claim changes only by a reinstatement
\* appending Reinstated; that of a Rejected claim changes only by an appeal.
C15_TerminalStatuses ==
  [][\A id \in ClaimIds :
       \/ claims'[id].history = claims[id].history
       \/ CurrentStatus(claims[id]) \notin {"Reinstated", "Paid", "Rejected"}
       \/ /\ CurrentStatus(claims[id]) = "Paid"
          /\ response'.op = "reinstateClaim" /\ response'.claim = id
          /\ Appended(id) = << "Reinstated" >>
       \/ /\ CurrentStatus(claims[id]) = "Rejected"
          /\ response'.op = "submitAppeal" /\ response'.claim = id]_vars

\* C16: a request that ends in an error at the request boundary (500)
\* leaves the claims and the users exactly as they were before it.
C16_ErrorLeavesNoPartialState ==
  [][response'.code = 500 => (claims' = claims /\ users' = users)]_vars

\* C17: a verifyClaim run for a user without any revenue history (no
\* Analytics document, or one without entries) measures a zero baseline and
\* a zero drop and ends with the claim Rejected and the request answered
\* normally.
C17_AbsentHistoryRejects ==
  (Verified_At(response, {"pull", "drop", "coverage", "duplicate", "fraud"})
     /\ analytics[claims[response.claim].userId].earningsHistory = << >>)
    => /\ response.code \in {200, 201}
       /\ claims[response.claim].baselineDaily = 0
       /\ claims[response.claim].revenueDropPercent = 0
       /\ CurrentStatus(claims[response.claim]) = "Rejected"

\* Sum of the payout amounts of user u's paid claims among the first n claims.
RECURSIVE PaidSum(_, _)
PaidSum(u, n) ==
  IF n = 0 THEN 0
  ELSE PaidSum(u, n - 1)
       + (IF claims[n].userId = u /\ HasStatus(claims[n], "Paid")
          THEN OrZero(claims[n].payoutAmount) ELSE 0)

\* Each paid claim of user u is, on its own, within the policy's monthly cap.
EachPaidWithinCap(u) ==
  \A id \in ClaimIds :
    (claims[id].userId = u /\ HasStatus(claims[id], "Paid"))
      => OrZero(claims[id].payoutAmount) <= CapOf(premiums[u])

\* C18: the payouts of all of a user's paid claims of one period add up to
\* at most the monthly cap of the user's policy (checked for users whose
\* paid claims are each within the cap on their own; every claim of a run
\* is filed and paid in the same period).
C18_TotalPayoutsWithinCap ==
  \A u \in DOMAIN users :
    EachPaidWithinCap(u) => PaidSum(u, Len(claims)) <= CapOf(premiums[u])

\* C19: every stored premium has its final percentage within 2..5 percent
\* and its final amount within 1000..5000, whatever the earnings and the
\* adjustment percentages of the operations that produced it.
C19_PremiumWithinRange ==
  \A i \in 1..Len(premiumDocs) :
    /\ 200 <= premiumDocs[i].finalPercentage /\ premiumDocs[i].finalPercentage <= 500
    /\ 1000 <= premiumDocs[i].finalAmount /\ premiumDocs[i].finalAmount <= 5000

\* An adjustment by a very large negative percentage was stored, on a
\* premium created from an application.
C19_Witness ==
  /\ billing.op = "adjustPremium" /\ billing.code = 200
  /\ billing.premium[1].manualAdjustment.percentage = 0 - 100000
  /\ \E i \in 1..Len(premiumDocs) :
       /\ premiumDocs[i] = billing.premium[1]
       /\ Len(premiumDocs[i].adjustmentHistory) >= 2

\* C20: the document a premium calculation (the discount check, or the
\* recalculation built on it) leaves has finalPercentage equal to
\* basePercentage minus the granted discount percentage, held within 2..5,
\* and finalAmount equal to that percentage of the monthly earnings, held
\* within 1000..5000.
C20_PremiumFormula ==
  (billing.op \in {"applyContentReviewDiscount", "calculatePremium"}
     /\ billing.premium # << >>)
    => /\ billing.premium[1].finalPercentage
            = Clamp(billing.premium[1].basePercentage
                      - Pct(billing.premium[1].discount.percentage), 200, 500)
       /\ billing.premium[1].finalAmount
            = Clamp((billing.premium[1].finalPercentage * account.monthlyEarnings) \div 10000,
                    1000, 5000)

\* Number of adjustments of premium i that the bulk request reports done.
Successes(results, i) ==
  Cardinality({k \in 1..Len(results) : results[k].premiumId = i /\ results[k].success})

\* The entry appended for an adjustment by adj percent of premium i.
RecordedEntry(i, adj) ==
  [percentage |-> adj, reason |-> "risk review", adjustedBy |-> Admin,
   newFinalAmount |-> premiumDocs'[i].finalAmount,
   newFinalPercentage |-> premiumDocs'[i].finalPercentage]

\* C21: a premium adjustment that goes through (adjustPremium, or one item of
\* bulkAdjustPremiums) appends exactly one entry to the premium's adjustment
\* history, holding the admin, the reason, the percentage given and the final
\* amount and percentage now stored on the premium; the earlier entries stay
\* as they were, the other premiums do not change, and an adjustment that
\* fails changes no premium.
C21_AdjustmentRecorded ==
  [][/\ \A i \in 1..Len(premiumDocs), adj \in AdjustmentInputs :
          AdjustPremium(i, adj, "risk review")
            => IF billing'.code = 200
               THEN /\ Len(premiumDocs') = Len(premiumDocs)
                    /\ premiumDocs'[i].adjustmentHistory
                         = Append(premiumDocs[i].adjustmentHistory, RecordedEntry(i, adj))
                    /\ \A j \in 1..Len(premiumDocs) : j # i => premiumDocs'[j] = premiumDocs[j]
               ELSE premiumDocs' = premiumDocs
     /\ billing'.op = "bulkAdjustPremiums"
          => /\ Len(premiumDocs') = Len(premiumDocs)
             /\ \A i \in 1..Len(premiumDocs) :
                  /\ IsPrefix(premiumDocs[i].adjustmentHistory, premiumDocs'[i].adjustmentHistory)
                  /\ Len(premiumDocs'[i].adjustmentHistory)
                       = Len(premiumDocs[i].adjustmentHistory) + Successes(billing'.results, i)
                  /\ IF Successes(billing'.results, i) = 0
                     THEN premiumDocs'[i] = premiumDocs[i]
                     ELSE \E adj \in AdjustmentInputs :
                            premiumDocs'[i].adjustmentHistory[Len(premiumDocs'[i].adjustmentHistory)]
                              = RecordedEntry(i, adj)]_vars

\* A second adjustment of a premium went through and changed its amount.
C21_Witness ==
  /\ billing.op = "adjustPremium" /\ billing.code = 200
  /\ Len(billing.premium[1].adjustmentHistory) = 2
  /\ billing.premium[1].adjustmentHistory[1].newFinalAmount
       # billing.premium[1].adjustmentHistory[2].newFinalAmount
  /\ \E i \in 1..Len(premiumDocs) : premiumDocs[i] = billing.premium[1]

C23_DropDetection ==
  \A id \in ClaimIds :
    claims[id].revenueDropPercent # Undef
      => /\ claims[id].baselineDaily
              = BaselineAvg(claims[id], analytics[claims[id].userId])
         /\ claims[id].revenueDropPercent
              = DropPercent(claims[id].baselineDaily,
                            RecentAvg(claims[id], analytics[claims[id].userId]))
         /\ claims[id].lostDays
              = (IF LostDaysOf(claims[id], analytics[claims[id].userId]) = 0 THEN 0
                 ELSE Max2(3, LostDaysOf(claims[id], analytics[claims[id].userId])))

\* ------------- the scorer, the payout formula and the coverage classifier
\* scanFraud, calculatePayout and the coverage steps of verifyClaim applied
\* to stored claims.  Claim 1 belongs to user 1 and takes every combination
\* of the appeal status, the covered reason, the stored baseline and lost
\* days and the incident date; claim 2 belongs to user 2, has a loss above
\* every cap and takes every combination of the incident type, the drop, the
\* lost days and the strikes.  The accounts take every combination of the
\* account facts; the policy of user 2 takes both caps.
ProfileInputs == {Profile(m, n, x) : m \in BOOLEAN, n \in BOOLEAN, x \in BOOLEAN}
AppealInputs == {"Not started", "In progress", "Rejected"}
ReasonInputs == {"TEMP_SUSPEND", "COPYRIGHT"}
BaselineInputs == {Undef, 0, 1000, 100000}
LostDaysInputs == {3, 5}
CapInputs == {30000, DefaultMonthlyCap}
\* The three incident types of the schema and one outside it.
TypeInputs == IncidentTypes \cup {"Channel hacked"}
DropInputs == {Pct(70) - 1, Pct(70)}
CoverageDaysInputs == {2, 3}
StrikeInputs == {2, 3}

StoredClaim(u, idate, appeal, coveredReason, baselineDaily, lostDays) ==
  [NewClaim(u, "Full suspension", idate, appeal) EXCEPT
     !.coveredReason = coveredReason, !.baselineDaily = baselineDaily,
     !.lostDays = lostDays]

Pulled(cl, itype, drop, lostDays, strikes) ==
  [cl EXCEPT !.incidentType = itype, !.revenueDropPercent = drop,
             !.lostDays = lostDays, !.strikes = strikes]

ScoringInit ==
  /\ strictQuery = TRUE
  /\ analytics = [u \in Users |-> Hist]
  /\ premiums \in {[u \in Users |-> IF u = 1 THEN DefaultMonthlyCap ELSE c] : c \in CapInputs}
  /\ users \in {[u \in Users |-> [profile |-> p, fraudScore |-> InitialStanding(u),
                                  claimHistory |-> << >>]] : p \in ProfileInputs}
  /\ \/ claims \in {<< StoredClaim(1, d, a, r, b, l),
                        StoredClaim(2, 4, "Not started", "TEMP_SUSPEND", 100000, 3) >> :
                      d \in IncidentDates, a \in AppealInputs,
                      r \in ReasonInputs, b \in BaselineInputs, l \in LostDaysInputs}
     \/ claims \in {<< StoredClaim(1, 7, "Not started", "TEMP_SUSPEND", 1000, 5),
                        Pulled(StoredClaim(2, 4, "Not started", "OTHER_NOT_COVERED", 100000, 3),
                               y, p, l, k) >> :
                      y \in TypeInputs, p \in DropInputs,
                      l \in CoverageDaysInputs, k \in StrikeInputs}
  /\ now = 10
  /\ response = NoResponse
  /\ requests = 0
  /\ account = InitialAccount(0, 0)
  /\ premiumDocs = << >>
  /\ billing = NoBill
  /\ runs = << >>

\* claim.scanFraud(): the scan and its save.
ScanFraud(id) ==
  /\ Served
  /\ claims' = [claims EXCEPT ![id] = scanFraud(claims[id], users[claims[id].userId],
                                                analytics[claims[id].userId])]
  /\ UNCHANGED << users, response >>

\* claim.calculatePayout(): the formula and its save.
CalculatePayout(id) ==
  /\ Served
  /\ claims' = [claims EXCEPT ![id] = calculatePayout(claims[id], premiums[claims[id].userId])]
  /\ UNCHANGED << users, response >>

\* Steps 2 and 3 of verifyClaim: the covered reason is mapped from the
\* incident type, enforceCoverage decides, and a rejection is recorded.
Classified(cl) == [cl EXCEPT !.coveredReason = TypeMap(cl.incidentType)]

CoverageDecided(id, cl, decision) ==
  /\ claims' = [claims EXCEPT ![id] = IF decision = "reject"
                                       THEN updateStatus(cl, "Rejected", NoActor)
                                       ELSE cl]
  /\ response' = Resp("enforceCoverage", id, 200, decision, 0, 0, "coverage", << >>)

CoverageStep(id) ==
  /\ Served
  /\ CoverageDecided(id, Classified(claims[id]), enforceCoverage(Classified(claims[id])))
  /\ UNCHANGED users

ScoringNext ==
  \/ \E id \in ClaimIds : ScanFraud(id)
  \/ \E id \in ClaimIds : CalculatePayout(id)
  \/ \E id \in ClaimIds : CoverageStep(id)

ScoringSpec == ScoringInit /\ [][ScoringNext]_vars

\* The signals of a claim, stated from the documents the scorer reads, each
\* with the penalty the specification gives it.
Signal(flag, penalty) == [flag |-> flag, penalty |-> penalty]

Triggered(cl, user, an) ==
  {s \in {Signal("revenueSpike", 20), Signal("massUpload", 15),
          Signal("copyrightMismatch", 25), Signal("appealRejected", 10),
          Signal("newChannel", 10), Signal("nameMismatch", 5)} :
     CASE s.flag = "revenueSpike" ->
            cl.baselineDaily # Undef /\ PreAvg(cl, an) > 2 * cl.baselineDaily
       [] s.flag = "massUpload" -> user.profile.massUpload
       [] s.flag = "copyrightMismatch" -> cl.coveredReason = "COPYRIGHT"
       [] s.flag = "appealRejected" -> cl.appealStatus = "Rejected"
       [] s.flag = "newChannel" -> user.profile.newChannel
       [] OTHER -> user.profile.nameMismatch}

RECURSIVE PenaltySum(_)
PenaltySum(signals) ==
  IF signals = {} THEN 0
  ELSE LET s == CHOOSE x \in signals : TRUE
       IN s.penalty + PenaltySum(signals \ {s})

\* A scanned claim carries confidenceScore (90 from scanFraud).
Scanned(cl) == cl.confidenceScore # Undef

C24_Unflagged ==
  \E id \in ClaimIds :
    Scanned(claims[id]) /\ claims[id].reasons = {} /\ claims[id].fraudScore = 100

Category(itype) ==
  CASE itype = "Full suspension" -> "TEMP_SUSPEND"
    [] itype = "Limited ads" -> "AD_SUITS"
    [] itype = "Video demonetization" -> "POLICY_UPDATE"
    [] OTHER -> "OTHER_NOT_COVERED"

\* C26: the coverage classifier maps Full suspension to the
\* temporary-suspension category, Limited ads to the ad-suitability category,
\* Video demonetization to the policy-update category and anything else to the
\* not-covered category; it approves if and only if the category is covered,
\* the drop is at least 70%, the lost days are at least 3 and the strikes are
\* below 3, and otherwise the claim is Rejected.
C26_CoverageClassifier ==
  response.op = "enforceCoverage"
    => /\ claims[response.claim].coveredReason
            = Category(claims[response.claim].incidentType)
       /\ response.status = "approve"
            <=> /\ claims[response.claim].coveredReason
                     \in {"AD_SUITS", "POLICY_UPDATE", "TEMP_SUSPEND", "GLITCH"}
                /\ claims[response.claim].revenueDropPercent >= 7000
                /\ claims[response.claim].lostDays >= 3
                /\ claims[response.claim].strikes < 3
       /\ response.status # "approve"
            => /\ response.status = "reject"
               /\ CurrentStatus(claims[response.claim]) = "Rejected"

\* A Limited ads claim approved on the thresholds: drop 70%, 3 lost days,
\* 2 strikes.
C26_Witness ==
  /\ response.op = "enforceCoverage" /\ response.status = "approve"
  /\ claims[response.claim].incidentType = "Limited ads"
  /\ claims[response.claim].coveredReason = "AD_SUITS"
  /\ claims[response.claim].revenueDropPercent = 7000
  /\ claims[response.claim].lostDays = 3
  /\ claims[response.claim].strikes = 2
  /\ CurrentStatus(claims[response.claim]) = "Submitted"

\* A claim of a type outside the three is not covered and Rejected.
C26_NotCovered ==
  /\ response.op = "enforceCoverage" /\ response.status = "reject"
  /\ claims[response.claim].coveredReason = "OTHER_NOT_COVERED"
  /\ claims[response.claim].revenueDropPercent = 7000
  /\ claims[response.claim].lostDays = 3
  /\ claims[response.claim].strikes = 2

\* Number of Paid entries in a status history: processPayout appends one per
\* run, and nothing else appends Paid.
PaidStatuses(cl) == Cardinality({i \in 1..Len(cl.history) : cl.history[i].status = "Paid"})

\* C27: every claim is paid at most once: its status history holds at most
\* one Paid entry, that is, processPayout has run at most once for it.
C27_PaidAtMostOnce ==
  \A id \in ClaimIds : PaidStatuses(claims[id]) <= 1

\* The requests that carry a manual review decision.
ReviewOps == {"reviewClaimManual", "bulkReviewClaims", "bulkReviewClaimsContent"}

\* The step reports a decision on claim id as carried out.
Accepted(id) ==
  \/ response'.op = "reviewClaimManual" /\ response'.claim = id /\ response'.code = 200
  \/ \E k \in 1..Len(response'.results) :
       response'.results[k].claimId = id /\ response'.results[k].success

\* C29: a manual review request (reviewClaimManual or either
\* bulkReviewClaims) leaves every claim whose current status is not Manual
\* Review or Under Review unchanged and reports no decision on it as
\* carried out.
C29_ReviewOnlyWhenHeld ==
  [][\A id \in ClaimIds :
       (/\ response'.op \in ReviewOps
        /\ ~claims[id].deleted
        /\ CurrentStatus(claims[id]) \notin {"Manual Review", "Under Review"})
         => /\ claims'[id] = claims[id]
            /\ ~Accepted(id)]_vars

Concurrent ==
  /\ UNCHANGED << strictQuery, analytics, premiums, now >>
  /\ UNCHANGED << account, premiumDocs, billing, requests >>

\* new Claim({...}); await claim.save()
BeginSubmit(u, itype, idate, appeal) ==
  /\ Len(claims) < MaxClaims
  /\ Concurrent
  /\ claims' = Append(claims, NewClaim(u, itype, idate, appeal))
  /\ runs' = Append(runs, "pull")
  /\ UNCHANGED << users, response >>

\* verifyClaim steps 1 to 3.  v is the result of verifyClaim on the present
\* collection: when it ends at the pull, the drop test or the coverage test
\* it does not depend on the other claims and the request ends here.
PullDone(id, cl, v) ==
  IF v.stage \in {"pull", "drop", "coverage"}
  THEN /\ SubmitVerified(cl.userId, id, claims, v)
       /\ runs' = [runs EXCEPT ![id] = "done"]
  ELSE /\ claims' = [claims EXCEPT ![id] = Classified(autoPullData(cl, analytics[cl.userId]))]
       /\ runs' = [runs EXCEPT ![id] = "find"]
       /\ UNCHANGED << users, response >>

PullStep(id) ==
  /\ runs[id] = "pull"
  /\ Concurrent
  /\ PullDone(id, claims[id], verifyClaim(id, claims, users, analytics, premiums, now))

\* verifyClaim step 4: Claim.find reads the other claims as they are now.
FindStep(id) ==
  /\ runs[id] = "find"
  /\ Concurrent
  /\ claims' = [claims EXCEPT ![id].doubleDipCheck = IsDuplicate(id, claims[id], claims, now)]
  /\ runs' = [runs EXCEPT ![id] = "finish"]
  /\ UNCHANGED << users, response >>

\* verifyClaim from the test of the duplicate flag on, and the reply.
FinishStep(id) ==
  /\ runs[id] = "finish"
  /\ Concurrent
  /\ SubmitVerified(claims[id].userId, id, claims,
                    DuplicateBranch(id, claims[id], users, analytics[claims[id].userId],
                                    premiums[claims[id].userId], now))
  /\ runs' = [runs EXCEPT ![id] = "done"]

ConcurrentNext ==
  \/ \E u \in Users, itype \in SubmittedTypes, idate \in IncidentDates,
        appeal \in SubmittedAppeals : BeginSubmit(u, itype, idate, appeal)
  \/ \E id \in ClaimIds : PullStep(id)
  \/ \E id \in ClaimIds : FindStep(id)
  \/ \E id \in ClaimIds : FinishStep(id)

ConcurrentSpec == Init /\ [][ConcurrentNext]_vars

\* Two claims of one user for one incident: incident dates less than a day
\* apart.
SameIncident(i, j) ==
  /\ i # j
  /\ claims[i].userId = claims[j].userId
  /\ claims[i].incidentDate - claims[j].incidentDate < 1
  /\ claims[j].incidentDate - claims[i].incidentDate < 1

====
